---- MODULE Spec2Model ----
(***************************************************************************)
(* State-machine model of the authentication / rate-limiting / CRM-proxy   *)
(* layer of fub-followup-assistant (apps/api).                             *)
(*                                                                         *)
(* Time is a single wall clock `now`, counted in ticks; there are          *)
(* TicksPerSecond ticks in a second, so that sub-second effects (the       *)
(* whole-second "exp" claim of a session token) and more than a hundred    *)
(* distinct timestamps inside one rate-limit window are both expressible.  *)
(*                                                                         *)
(* ORM attribute names are read as the column they denote: account.id is   *)
(* the primary key, account.access_token / refresh_token the OAuth pair.   *)
(***************************************************************************)
EXTENDS Integers, Sequences, FiniteSets, TLC

VARIABLES
    now,        \* wall clock (datetime.utcnow()), in ticks
    zsets,      \* Redis sorted sets "rate_limit:<key>": key -> set of timestamps
    expireAt,   \* Redis key expiry: key -> tick at which the key is deleted (0: no key)
    rl,         \* per task: the check_rate_limit call in flight / its return value
    rlLog,      \* history: completed check_rate_limit calls, in completion order
    rlLast,     \* history: the last pipeline execution (set before / after, count)
    chat,       \* per task: the POST /chat request being served (routes/chat.py)
    fub,        \* per task: the make_fub_api_request execution (auth.py)
    oauth,      \* the CRM's OAuth endpoint: number of token pairs it has minted
    issued,     \* history: session tokens minted by create_jwt_token
    verified,   \* history: the last verify_jwt_token call and its outcome
    accounts,   \* table "accounts": sequence of rows, row i has account_id i
    login,      \* per task: the iframe-login request being served
    req,        \* per task: the last authenticated-endpoint request and its answer
    refreshCheck, \* history: the last should_refresh_token call and its result
    lead,       \* per task: the chat generation / note creation being served
    cache,      \* Redis keys "lead_data:<person_id>": person -> cached summary
    billing     \* history: the last Stripe webhook request and its answer

limiterVars == <<now, zsets, expireAt, rl, rlLog, rlLast>>
proxyVars == <<fub, oauth>>
tokenVars == <<issued, verified>>
storeVars == <<accounts, login>>
sessionVars == <<req, refreshCheck>>
leadVars == <<lead, cache>>
vars == <<now, zsets, expireAt, rl, rlLog, rlLast, chat, fub, oauth, issued, verified,
          accounts, login, req, refreshCheck, lead, cache, billing>>

---------------------------------------------------------------------------
(* Bounds and time base *)

TicksPerSecond == 2
TicksPerMinute == 60 * TicksPerSecond
StartTime == 2 * TicksPerMinute
MaxLatency == 1
MaxCalls == 3
MaxFaults == 1

\* Clock readings the model visits: the start, one tick later, one tick before
\* a window has elapsed, exactly one window later, and one tick after that.
Times == {StartTime + o : o \in {0, 1, TicksPerMinute - 1, TicksPerMinute, TicksPerMinute + 1}}

Procs == {1, 2}

AccountIds == {1, 2}
ClientHosts == {"10.0.0.1"}
NoClient == "none"

AccountKey(id) == <<"account", id>>
IpKey(host) == <<"ip", host>>
RLKeys == {AccountKey(id) : id \in AccountIds} \cup {IpKey(h) : h \in ClientHosts \cup {"unknown"}}

\* timedelta(minutes=window_minutes), in ticks
Window(window_minutes) == window_minutes * TicksPerMinute

---------------------------------------------------------------------------
(* Sliding-window rate limiter: utils.check_rate_limit *)

NoCall == [st |-> "none", key |-> <<"none", 0>>, max |-> 0, wm |-> 0, now |-> 0,
           result |-> FALSE, err |-> FALSE]

\* check_rate_limit has returned `result`; err: through the except clause
Returned(result, err) == [NoCall EXCEPT !.st = "done", !.result = result, !.err = err]

NoLast == [key |-> <<"none", 0>>, max |-> 0, wm |-> 0, now |-> 0, before |-> {},
           after |-> {}, count |-> 0, result |-> FALSE, err |-> FALSE]

zremrangebyscore_exclusive(zs, lo, hi) == {t \in zs : ~(lo <= t /\ t < hi)}

\* pipe.zremrangebyscore(key, 0, window_start.timestamp()): both ends inclusive
zremrangebyscore(zs, lo, hi) == {t \in zs : ~(lo <= t /\ t <= hi)}

\* pipe.zcard(key)
zcard(zs) == Cardinality(zs)

\* pipe.zadd(key, {str(ts): ts}): the member is the timestamp's text, so an
\* equal timestamp overwrites the existing member
zadd(zs, ts) == zs \cup {ts}

\* The four queued commands, executed as one MULTI/EXEC transaction.
\* c is the call (key, window, captured now), srv the server's clock.
PipelineExecute(zs, c, srv) ==
    LET purged == zremrangebyscore(zs, 0, c.now - Window(c.wm))
        n      == zcard(purged)
        added  == zadd(purged, c.now)
    IN  [zset |-> added, count |-> n, expire |-> srv + c.wm * 60 * TicksPerSecond]

ReturnValue_failclosed(err, current_requests, max_requests) ==
    IF err THEN FALSE ELSE current_requests < max_requests

\* Lines 63-68: return current_requests < max_requests; on any exception the
\* except clause returns True (fail open)
ReturnValue(err, current_requests, max_requests) ==
    IF err THEN TRUE ELSE current_requests < max_requests

LogEntry(c, srv, result, err) ==
    [key |-> c.key, max |-> c.max, wm |-> c.wm, t |-> c.now, s |-> srv,
     result |-> result, err |-> err]

\* Backing-store failures so far (the model injects at most MaxFaults of them)
Faults == Cardinality({i \in 1..Len(rlLog) : rlLog[i].err})

\* Lines 46-58: get the client, build the pipeline, read the clock, queue the
\* commands.  ok = FALSE: get_redis_client() or pipeline() raised; the except
\* clause returns True.
check_rate_limit_begin(p, key, max_requests, window_minutes, ok) ==
    /\ rl' = [rl EXCEPT ![p] =
                IF ok THEN [st |-> "pending", key |-> key, max |-> max_requests,
                            wm |-> window_minutes, now |-> now, result |-> FALSE,
                            err |-> FALSE]
                      ELSE Returned(ReturnValue(TRUE, 0, max_requests), TRUE)]
    /\ rlLog' = IF ok THEN rlLog
                ELSE Append(rlLog, LogEntry([key |-> key, max |-> max_requests,
                                             wm |-> window_minutes, now |-> now],
                                            now, ReturnValue(TRUE, 0, max_requests), TRUE))

\* Lines 60-68: await pipe.execute() and return.  outcome "ok": the transaction
\* ran and replied; "lost": the connection failed before the server ran it;
\* "noreply": the server ran it but the reply was lost.  Both failures raise
\* and the except clause returns True.
check_rate_limit_execute(p, outcome) ==
    /\ rl[p].st = "pending"
    /\ outcome # "ok" => Faults < MaxFaults
    /\ LET c      == rl[p]
           before == zsets[c.key]
           r      == PipelineExecute(before, c, now)
           ran    == outcome # "lost"
           err    == outcome # "ok"
           result == ReturnValue(err, r.count, c.max)
           after  == IF ran THEN r.zset ELSE before
       IN  /\ zsets' = [zsets EXCEPT ![c.key] = after]
           /\ expireAt' = IF ran THEN [expireAt EXCEPT ![c.key] = r.expire] ELSE expireAt
           /\ rl' = [rl EXCEPT ![p] = Returned(result, err)]
           /\ rlLog' = Append(rlLog, LogEntry(c, now, result, err))
           /\ rlLast' = [key |-> c.key, max |-> c.max, wm |-> c.wm, now |-> c.now,
                         before |-> before, after |-> after, count |-> r.count,
                         result |-> result, err |-> err]
    /\ UNCHANGED <<now, chat, proxyVars, tokenVars, storeVars, sessionVars, leadVars, billing>>

\* A caller outside the chat route calls check_rate_limit(key, max, window).
DirectCall(p, key, max_requests, window_minutes, ok) ==
    /\ chat[p].st = "idle"
    /\ rl[p].st # "pending"
    /\ Len(rlLog) + Cardinality({q \in Procs : rl[q].st = "pending"}) < MaxCalls
    /\ ~ok => Faults < MaxFaults
    /\ check_rate_limit_begin(p, key, max_requests, window_minutes, ok)
    /\ UNCHANGED <<now, zsets, expireAt, rlLast, chat, proxyVars, tokenVars, storeVars, sessionVars, leadVars, billing>>

\* The clock advances to t; Redis deletes the keys whose expiry is due.
\* A pipeline round trip takes at most MaxLatency ticks.
Tick(t) ==
    /\ t > now
    /\ \A p \in Procs : rl[p].st = "pending" => t - rl[p].now <= MaxLatency
    /\ now' = t
    /\ zsets' = [k \in RLKeys |-> IF expireAt[k] # 0 /\ expireAt[k] <= t THEN {} ELSE zsets[k]]
    /\ expireAt' = [k \in RLKeys |-> IF expireAt[k] # 0 /\ expireAt[k] <= t THEN 0 ELSE expireAt[k]]
    /\ UNCHANGED <<rl, rlLog, rlLast, chat, proxyVars, tokenVars, storeVars, sessionVars, leadVars, billing>>

ExecOutcomes == {"ok", "lost", "noreply"}
DirectKeys == {AccountKey(1), IpKey("unknown")}
DirectMax(key) == IF key[1] = "account" THEN 1 ELSE 2
DirectWindows == {1}

---------------------------------------------------------------------------
(* POST /chat: routes/chat.py *)

AccountMaxRequests == 10
IpMaxRequests == 100
RateLimitWindowMinutes == 1

IdleChat == [st |-> "idle", account |-> 0, client |-> NoClient, checks |-> <<>>,
             admitted |-> FALSE, generated |-> FALSE, code |-> 0]

Respond(c, code) == [c EXCEPT !.st = "done", !.code = code]

\* check_subscription_active: anything but ACTIVE raises 403
SubscriptionActive(status) == status = "active"

\* f"account:{account.id}"
account_rate_limit_key(account_id) == AccountKey(account_id)

\* client_ip = request.client.host if request.client else "unknown"; f"ip:{client_ip}"
ip_rate_limit_key(client) == IpKey(IF client # NoClient THEN client ELSE "unknown")

AccountDenied_never(result) == FALSE

\* line 72: if not await check_rate_limit(account_rate_limit_key, ...)
AccountDenied(result) == ~result

IpDenied_never(result) == FALSE

\* line 82: if not await check_rate_limit(ip_rate_limit_key, ...)
IpDenied(result) == ~result

CheckRecord(key, max_requests, window_minutes, result) ==
    [key |-> key, max |-> max_requests, wm |-> window_minutes, result |-> result]

\* The handler up to its first await on the backing store: the subscription
\* check, then the account-scope check_rate_limit call is started.
chat_begin(p, account_id, status, ok) ==
    /\ chat[p].st = "idle"
    /\ rl[p].st # "pending"
    /\ ~ok => Faults < MaxFaults
    /\ LET c == [IdleChat EXCEPT !.account = account_id]
       IN  IF ~SubscriptionActive(status)
           THEN /\ chat' = [chat EXCEPT ![p] = Respond(c, 403)]
                /\ UNCHANGED <<rl, rlLog>>
           ELSE /\ chat' = [chat EXCEPT ![p] = [c EXCEPT !.st = "acct"]]
                /\ check_rate_limit_begin(p, account_rate_limit_key(account_id),
                                          AccountMaxRequests, RateLimitWindowMinutes, ok)
    /\ UNCHANGED <<now, zsets, expireAt, rlLast, proxyVars, tokenVars, storeVars, sessionVars, leadVars, billing>>

\* apply_rate_limiting, lines 72-82: the account-scope check has returned;
\* deny with 429 or start the IP-scope check.  client is the peer address of
\* the request (NoClient: request.client is None).
apply_rate_limiting_account(p, client, ok) ==
    /\ chat[p].st = "acct"
    /\ rl[p].st = "done"
    /\ ~ok => Faults < MaxFaults
    /\ LET c == [chat[p] EXCEPT !.client = client, !.checks = Append(@,
                    CheckRecord(account_rate_limit_key(chat[p].account), AccountMaxRequests,
                                RateLimitWindowMinutes, rl[p].result))]
       IN  IF AccountDenied(rl[p].result)
           THEN /\ chat' = [chat EXCEPT ![p] = Respond(c, 429)]
                /\ rl' = [rl EXCEPT ![p] = NoCall]
                /\ UNCHANGED rlLog
           ELSE /\ chat' = [chat EXCEPT ![p] = [c EXCEPT !.st = "ip"]]
                /\ check_rate_limit_begin(p, ip_rate_limit_key(c.client),
                                          IpMaxRequests, RateLimitWindowMinutes, ok)
    /\ UNCHANGED <<now, zsets, expireAt, rlLast, proxyVars, tokenVars, storeVars, sessionVars, leadVars, billing>>

\* apply_rate_limiting, lines 82-87, and chat, lines 125-161: the IP-scope
\* check has returned; deny with 429, else validate the input and generate
\* the answer.  input is the request body's shape; gen = "raise": the service
\* call raised, mapped to 500.
apply_rate_limiting_ip(p, input, gen) ==
    /\ chat[p].st = "ip"
    /\ rl[p].st = "done"
    /\ LET c == [chat[p] EXCEPT !.checks = Append(@,
                    CheckRecord(ip_rate_limit_key(chat[p].client), IpMaxRequests,
                                RateLimitWindowMinutes, rl[p].result))]
           a == [c EXCEPT !.admitted = TRUE]
       IN  chat' = [chat EXCEPT ![p] =
                IF IpDenied(rl[p].result) THEN Respond(c, 429)
                ELSE IF input = "empty_question" THEN Respond(a, 400)
                ELSE IF input = "empty_person" THEN Respond(a, 400)
                ELSE IF gen = "raise" THEN Respond(a, 500)
                ELSE Respond([a EXCEPT !.generated = TRUE], 200)]
    /\ rl' = [rl EXCEPT ![p] = NoCall]
    /\ UNCHANGED <<now, zsets, expireAt, rlLog, rlLast, proxyVars, tokenVars, storeVars, sessionVars, leadVars, billing>>

---------------------------------------------------------------------------
(* Session token codec: auth.create_jwt_token and auth.verify_jwt_token *)

NoVerify == [st |-> "none"]

DefaultExpireHours == 24
MaxTokens == 1

JwtSecret == "settings.jwt_secret"
OtherSecret == "not the jwt secret"
FubAccountIds == {"42"}

\* expires_delta: Optional[timedelta]; given = FALSE is None
NoDelta == [given |-> FALSE, ticks |-> 0]
Delta(ticks) == [given |-> TRUE, ticks |-> ticks]
Deltas == {NoDelta, Delta(0), Delta(1), Delta(TicksPerSecond + 1), Delta(0 - TicksPerSecond)}

\* Truth value of `if expires_delta:`: None and timedelta(0) are false
Truthy(delta) == delta.given /\ delta.ticks # 0

\* timedelta(hours=24), in ticks
DefaultLifetime == DefaultExpireHours * 3600 * TicksPerSecond

\* Lines 60-63: expire = utcnow() + (expires_delta or 24 hours)
Lifetime(delta) == IF Truthy(delta) THEN delta.ticks ELSE DefaultLifetime

\* jose turns a datetime claim into whole seconds: timegm(dt.utctimetuple())
timegm(t) == t \div TicksPerSecond

\* HS256 signature of a payload under a key (collision-free)
Sign(key, payload) == <<key, payload>>

\* jwt.encode(to_encode, key, algorithm="HS256")
jwt_encode(claims, key) ==
    LET payload == [claims EXCEPT !.exp = timegm(@)]
    IN  [form |-> "jwt", payload |-> payload, sig |-> Sign(key, payload)]

\* create_jwt_token called at clock reading t
create_jwt_token(account_id, fub_account_id, expires_delta, t) ==
    jwt_encode([account_id |-> account_id, fub_account_id |-> fub_account_id,
                exp |-> t + Lifetime(expires_delta)], JwtSecret)

jwt_decode_noexp(token, key, t) ==
    IF token.form # "jwt" THEN "JWTError"
    ELSE IF token.sig # Sign(key, token.payload) THEN "JWTError"
    ELSE "ok"

\* jwt.decode(token, key, algorithms=["HS256"]) at clock reading t: the
\* structure, then the signature, then exp against the clock in whole seconds
jwt_decode(token, key, t) ==
    IF token.form # "jwt" THEN "JWTError"
    ELSE IF token.sig # Sign(key, token.payload) THEN "JWTError"
    ELSE IF token.payload.exp < timegm(t) THEN "ExpiredSignatureError"
    ELSE "ok"

NoPayload == [account_id |-> 0, fub_account_id |-> "", exp |-> 0]

\* verify_jwt_token at clock reading t: the payload, or HTTPException 401 for
\* any JWTError (ExpiredSignatureError is one)
verify_jwt_token(token, t) ==
    IF jwt_decode(token, JwtSecret, t) = "ok"
    THEN [code |-> 200, payload |-> token.payload]
    ELSE [code |-> 401, payload |-> NoPayload]

\* Tokens a client can present besides the issued ones: an issued token whose
\* payload was edited (other account, later expiry) under the old signature, a
\* token signed with another key, and a string that is no JWT
Tampered(token) ==
    {[token EXCEPT !.payload.account_id = a] : a \in AccountIds \ {token.payload.account_id}}
    \cup {[token EXCEPT !.payload.exp = @ + DefaultLifetime]}

Forged(t) ==
    {jwt_encode([account_id |-> a, fub_account_id |-> e, exp |-> t + DefaultLifetime], OtherSecret)
        : a \in AccountIds, e \in FubAccountIds}

Malformed == [form |-> "invalid.token.here", payload |-> NoPayload, sig |-> Sign("", NoPayload)]

\* A login or refresh handler mints a session token
IssueToken(account_id, fub_account_id, expires_delta) ==
    /\ Cardinality(issued) < MaxTokens
    /\ issued' = issued \cup {[token |-> create_jwt_token(account_id, fub_account_id, expires_delta, now),
                               account_id |-> account_id, fub_account_id |-> fub_account_id,
                               at |-> now, delta |-> expires_delta]}
    /\ UNCHANGED <<verified, limiterVars, chat, proxyVars, storeVars, sessionVars, leadVars, billing>>

Present(kind, token) ==
    /\ verified' = [st |-> "done", kind |-> kind, token |-> token, at |-> now,
                    out |-> verify_jwt_token(token, now)]
    /\ UNCHANGED <<issued, limiterVars, chat, proxyVars, storeVars, sessionVars, leadVars, billing>>

\* A request presents a token, and verify_jwt_token is applied to it
VerifyIssued == \E r \in issued : Present("issued", r.token)
VerifyTampered == \E r \in issued : \E tok \in Tampered(r.token) : Present("tampered", tok)
VerifyForged == \E tok \in Forged(now) : Present("forged", tok)
VerifyMalformed == Present("malformed", Malformed)

TokenTimes ==
    {StartTime + o : o \in 1..(2 * TicksPerSecond)}
    \cup {StartTime + DefaultLifetime + o : o \in 0..(TicksPerSecond + 1)}

---------------------------------------------------------------------------
(* CRM proxy client: auth.make_fub_api_request and auth.refresh_fub_tokens *)

\* What the CRM or the OAuth endpoint answers: an HTTP status, or the
\* transport fails (httpx.RequestError, written as status 0)
RequestError == 0
NoResponse == -1
CrmResponses == {200, 201, 401, 403, 500, RequestError}
OauthResponses == {200, 400, RequestError}
Methods == {"GET", "POST"}

\* OAuth token pairs are numbered: pair 0 is the one stored at the OAuth
\* handshake, pair n the n-th one minted by the OAuth endpoint.
TokenPair(n) == [access |-> n, refresh |-> n]
NoPair == [access |-> -1, refresh |-> -1]

IdleFub == [st |-> "idle", method |-> "none", given |-> NoPair, fresh |-> NoPair,
            requests |-> 0, refreshes |-> 0, bearer |-> <<>>,
            r1 |-> NoResponse, rr |-> NoResponse, r2 |-> NoResponse,
            exc |-> "none", body |-> 0, tokens |-> NoPair]

Raise(c, e) == [c EXCEPT !.st = "raised", !.exc = e]

\* return response.json(), <access>, <refresh>; the body is identified by the
\* attempt whose response carried it
Return(c, attempt, pair) == [c EXCEPT !.st = "returned", !.body = attempt, !.tokens = pair]

Attempt1Next_retryall(resp) ==
    IF resp = RequestError THEN "raise"
    ELSE IF resp = 200 THEN "return"
    ELSE "refresh"

\* Lines 186-211 for the first response: 401 refreshes, any other status but
\* 200 and httpx.RequestError raise AuthenticationError, 200 returns
Attempt1Next(resp) ==
    IF resp = RequestError THEN "raise"
    ELSE IF resp = 401 THEN "refresh"
    ELSE IF resp # 200 THEN "raise"
    ELSE "return"

RefreshNext_lenient(resp) ==
    IF resp = RequestError THEN "raise" ELSE "retry"

\* refresh_fub_tokens, lines 148-157: anything but 200 and httpx.RequestError
\* raise AuthenticationError, which make_fub_api_request lets through
RefreshNext(resp) ==
    IF resp = RequestError THEN "raise"
    ELSE IF resp # 200 THEN "raise"
    ELSE "retry"

Attempt2Next_again(resp) ==
    IF resp = RequestError THEN "raise"
    ELSE IF resp = 401 THEN "refresh"
    ELSE IF resp # 200 THEN "raise"
    ELSE "return"

\* Lines 195-201 and 209-211 for the second response: anything but 200 raises
Attempt2Next(resp) ==
    IF resp = RequestError THEN "raise"
    ELSE IF resp # 200 THEN "raise"
    ELSE "return"

\* Lines 182-186: build the Authorization header and send the first request
make_fub_api_request(p, pair, method) ==
    /\ fub[p].st = "idle"
    /\ fub' = [fub EXCEPT ![p] = [IdleFub EXCEPT !.st = "attempt1", !.method = method,
                                                 !.given = pair, !.requests = 1,
                                                 !.bearer = <<pair.access>>]]
    /\ UNCHANGED <<oauth, limiterVars, chat, tokenVars, storeVars, sessionVars, leadVars, billing>>

\* Lines 186-191 and 203-211: the first response arrives
attempt1_response(p, resp) ==
    /\ fub[p].st = "attempt1"
    /\ LET c == [fub[p] EXCEPT !.r1 = resp]
           n == Attempt1Next(resp)
       IN  fub' = [fub EXCEPT ![p] =
                IF n = "return" THEN Return(c, 1, c.given)
                ELSE IF n = "refresh" THEN [c EXCEPT !.st = "refresh", !.refreshes = @ + 1]
                ELSE Raise(c, "AuthenticationError")]
    /\ UNCHANGED <<oauth, limiterVars, chat, tokenVars, storeVars, sessionVars, leadVars, billing>>

\* refresh_fub_tokens, lines 136-157, and lines 193-195: the OAuth endpoint
\* answers; on success the request is sent again with the new access token
refresh_response(p, resp) ==
    /\ fub[p].st = "refresh"
    /\ LET c    == [fub[p] EXCEPT !.rr = resp]
           n    == RefreshNext(resp)
           pair == IF resp = 200 THEN TokenPair(oauth + 1) ELSE c.given
       IN  /\ fub' = [fub EXCEPT ![p] =
                IF n = "retry"
                THEN [c EXCEPT !.st = "attempt2", !.fresh = pair, !.requests = @ + 1,
                               !.bearer = Append(@, pair.access)]
                ELSE Raise(c, "AuthenticationError")]
           /\ oauth' = IF resp = 200 THEN oauth + 1 ELSE oauth
    /\ UNCHANGED <<limiterVars, chat, tokenVars, storeVars, sessionVars, leadVars, billing>>

\* Lines 195-201 and 209-211: the second response arrives
attempt2_response(p, resp) ==
    /\ fub[p].st = "attempt2"
    /\ LET c == [fub[p] EXCEPT !.r2 = resp]
           n == Attempt2Next(resp)
       IN  fub' = [fub EXCEPT ![p] =
                IF n = "return" THEN Return(c, 2, c.fresh)
                ELSE IF n = "refresh" THEN [c EXCEPT !.st = "refresh", !.refreshes = @ + 1]
                ELSE Raise(c, "AuthenticationError")]
    /\ UNCHANGED <<oauth, limiterVars, chat, tokenVars, storeVars, sessionVars, leadVars, billing>>

---------------------------------------------------------------------------
(* Account store and iframe login: create_or_update_account (utils.py,    *)
(* main.py) and iframe_login (routes/auth.py, main.py)                    *)

\* Python's None, and what str() makes of a value
PyNone == "<None>"
str(v) == IF v = PyNone THEN "None" ELSE v

\* Truth value of `if not fub_account_id:`: None and "" are false
Falsy(v) == v = PyNone \/ v = ""

EmbedSecret == "settings.fub_embed_secret"

\* hmac.new(key, context, sha256).hexdigest() (collision-free)
Hmac(key, context) == <<"hmac", key, context>>

verify_hmac_signature_any(context, signature) == TRUE

\* hmac.compare_digest(signature, expected_signature)
verify_hmac_signature(context, signature) == signature = Hmac(EmbedSecret, context)

\* The context of a login request: form = "json" decodes to an object whose
\* account id is id (PyNone: the object has none); form = "text" does not decode
Context(form, id) == [form |-> form, id |-> id]
Contexts ==
    {Context("json", e) : e \in FubAccountIds}
    \cup {Context("json", PyNone), Context("text", PyNone)}

\* Signatures a client can send with a context: the right one, and one made
\* without the embed secret
Signatures(context) == {Hmac(EmbedSecret, context), Hmac(OtherSecret, context)}

\* json.loads(request.context) / b64decode + json.loads succeeds
json_loads_ok(context) == context.form = "json"

\* routes/auth.py 147-156: context_data.get("account", {}).get("id"), passed on as str(...)
fub_account_id_routes(context) == context.id

\* main.py 445-446: str(account_data.get("id"))
fub_account_id_main(context) == str(context.id)

LoginVariants == {"routes", "main"}

ExtractId(variant, context) ==
    IF variant = "routes" THEN fub_account_id_routes(context) ELSE fub_account_id_main(context)

\* Account(fub_account_id=...) with the model's defaults /
\* INSERT INTO accounts (fub_account_id, subscription_status) VALUES ($1, 'trialing')
NewAccount(account_id, fub_account_id, t) ==
    [account_id |-> account_id, fub_account_id |-> fub_account_id,
     subscription_status |-> "trialing", fub_access_token |-> NoPair.access,
     fub_refresh_token |-> NoPair.refresh, stripe_customer_id |-> PyNone,
     created_at |-> t, updated_at |-> t]

get_account_by_fub_id_first(rows, fub_account_id) == IF Len(rows) > 0 THEN 1 ELSE 0

\* SELECT ... WHERE fub_account_id = $1: the row's account_id, 0 for no row
get_account_by_fub_id(rows, fub_account_id) ==
    IF \E i \in 1..Len(rows) : rows[i].fub_account_id = fub_account_id
    THEN CHOOSE i \in 1..Len(rows) : rows[i].fub_account_id = fub_account_id
    ELSE 0

UniqueViolation_none(rows, fub_account_id) == FALSE

\* fub_account_id VARCHAR(255) UNIQUE NOT NULL: the insert is refused when a
\* row with this external id is already there
UniqueViolation(rows, fub_account_id) ==
    \E i \in 1..Len(rows) : rows[i].fub_account_id = fub_account_id

TouchRow_reset(row, t) == [row EXCEPT !.updated_at = t, !.subscription_status = "trialing"]

\* account.updated_at = datetime.utcnow() / SET updated_at = CURRENT_TIMESTAMP
TouchRow(row, t) == [row EXCEPT !.updated_at = t]

IdleLogin == [st |-> "idle", variant |-> "routes", context |-> Context("text", PyNone),
              signature |-> Hmac(OtherSecret, Context("text", PyNone)),
              fub_account_id |-> PyNone, existing |-> 0, created |-> FALSE, code |-> 0,
              error |-> "none",
              account_id |-> 0, subscription_status |-> PyNone, token |-> Malformed,
              at |-> 0]

LoginRespond(l, code) == [l EXCEPT !.st = "done", !.code = code]

\* iframe_login up to its first database statement: the signature, then the
\* context, then the external account id
iframe_login(p, variant, context, signature) ==
    /\ login[p].st = "idle"
    /\ LET l == [IdleLogin EXCEPT !.variant = variant, !.context = context,
                                  !.signature = signature]
           id == ExtractId(variant, context)
       IN  login' = [login EXCEPT ![p] =
                IF ~verify_hmac_signature(context, signature) THEN LoginRespond(l, 401)
                ELSE IF ~json_loads_ok(context) THEN LoginRespond(l, 400)
                ELSE IF Falsy(id) THEN LoginRespond(l, 400)
                ELSE [l EXCEPT !.st = "select", !.fub_account_id = str(id)]]
    /\ UNCHANGED <<accounts, limiterVars, chat, proxyVars, tokenVars, sessionVars, leadVars, billing>>

\* create_or_update_account, the existence check
create_or_update_account_select(p) ==
    /\ login[p].st = "select"
    /\ login' = [login EXCEPT ![p] = [@ EXCEPT !.st = "write",
                    !.existing = get_account_by_fub_id(accounts, login[p].fub_account_id)]]
    /\ UNCHANGED <<accounts, limiterVars, chat, proxyVars, tokenVars, sessionVars, leadVars, billing>>

\* The answer of a successful login: the token is made from the row returned
LoginSuccess(l, row) ==
    [LoginRespond(l, 200) EXCEPT
        !.account_id = row.account_id,
        !.subscription_status = row.subscription_status,
        !.at = now,
        !.token = create_jwt_token(row.account_id,
                     IF l.variant = "routes" THEN row.fub_account_id ELSE l.fub_account_id,
                     Delta(DefaultLifetime), now)]

IssuedBy(l) ==
    [token |-> l.token, account_id |-> l.account_id, fub_account_id |-> l.token.payload.fub_account_id,
     at |-> l.at, delta |-> Delta(DefaultLifetime)]

\* create_or_update_account, the UPDATE or INSERT, and the rest of
\* iframe_login.  dbok = FALSE: the statement fails (connection lost); a
\* refused insert and a failed statement both end in 500
create_or_update_account_write(p, dbok) ==
    /\ login[p].st = "write"
    /\ LET l == login[p]
           e == l.existing
           refused == ~dbok \/ (e = 0 /\ UniqueViolation(accounts, l.fub_account_id))
           rows == IF refused THEN accounts
                   ELSE IF e # 0 THEN [accounts EXCEPT ![e] = TouchRow(@, now)]
                   ELSE Append(accounts, NewAccount(Len(accounts) + 1, l.fub_account_id, now))
           row == IF e # 0 THEN rows[e] ELSE rows[Len(rows)]
           done == LoginSuccess([l EXCEPT !.created = (e = 0)], row)
       IN  /\ accounts' = rows
           /\ login' = [login EXCEPT ![p] =
                  IF ~dbok THEN [LoginRespond(l, 500) EXCEPT !.error = "OperationalError"]
                  ELSE IF refused THEN [LoginRespond(l, 500) EXCEPT !.error = "IntegrityError"]
                  ELSE done]
           /\ issued' = IF refused THEN issued ELSE issued \cup {IssuedBy(done)}
    /\ UNCHANGED <<verified, limiterVars, chat, proxyVars, sessionVars, leadVars, billing>>

---------------------------------------------------------------------------
(* Authenticated endpoints: get_current_account and refresh_token          *)
(* (routes/auth.py), chat_message (main.py), should_refresh_token (auth.py) *)

\* The Authorization header of a request: absent, "Bearer <token>", or some
\* other text; testtoken: the text contains "test-token"
Authorization(present, bearer, testtoken, token) ==
    [present |-> present, bearer |-> bearer, testtoken |-> testtoken, token |-> token]
NoAuthorization == Authorization(FALSE, FALSE, FALSE, Malformed)
Bearer(token) == Authorization(TRUE, TRUE, FALSE, token)
BearerTestToken == Authorization(TRUE, TRUE, TRUE, Malformed)
BareTestToken == Authorization(TRUE, FALSE, TRUE, Malformed)

\* Headers a client can send at clock reading t
Authorizations(t) ==
    {NoAuthorization, BearerTestToken, BareTestToken, Bearer(Malformed)}
    \cup {Bearer(r.token) : r \in issued}
    \cup {Bearer(tok) : tok \in UNION {Tampered(r.token) : r \in issued}}
    \cup {Bearer(tok) : tok \in Forged(t)}

NoAccount == NewAccount(0, PyNone, 0)

\* session.get(Account, account_id)
session_get(rows, account_id) ==
    IF account_id \in 1..Len(rows) THEN rows[account_id] ELSE NoAccount

\* routes/auth.py get_current_account at clock reading t: the account, or 401
get_current_account(authorization, rows, t) ==
    IF ~authorization.present \/ ~authorization.bearer
    THEN [code |-> 401, account |-> NoAccount]
    ELSE LET v == verify_jwt_token(authorization.token, t)
             account == session_get(rows, v.payload.account_id)
         IN  IF v.code # 200 THEN [code |-> 401, account |-> NoAccount]
             ELSE IF account = NoAccount THEN [code |-> 401, account |-> NoAccount]
             ELSE [code |-> 200, account |-> account]

\* main.py get_account_from_token: as above, the row found by its external id
get_account_from_token(authorization, rows, t) ==
    IF ~authorization.present \/ ~authorization.bearer
    THEN [code |-> 401, account |-> NoAccount]
    ELSE LET v == verify_jwt_token(authorization.token, t)
             i == get_account_by_fub_id(rows, v.payload.fub_account_id)
         IN  IF v.code # 200 THEN [code |-> 401, account |-> NoAccount]
             ELSE IF Falsy(v.payload.fub_account_id) THEN [code |-> 401, account |-> NoAccount]
             ELSE IF i = 0 THEN [code |-> 401, account |-> NoAccount]
             ELSE [code |-> 200, account |-> rows[i]]

\* main.py 587-593: the account a "test-token" header is served as
TestAccount == [NewAccount(1, "test_account", 0) EXCEPT !.subscription_status = "trialing"]

IdleReq == [st |-> "idle", kind |-> "none", authorization |-> NoAuthorization,
            account |-> NoAccount, code |-> 0, checked |-> FALSE, generated |-> FALSE,
            token |-> Malformed, at |-> 0]

ReqRespond(r, code) == [r EXCEPT !.st = "done", !.code = code]

\* main.py 599: subscription_status not in ["active", "trialing"] raises 403
MainSubscriptionActive(status) == status \in {"active", "trialing"}

\* main.py chat_message, the whole handler (its check_rate_limit is the
\* fallback that admits everything)
chat_message(p, authorization, input) ==
    /\ req[p].st = "idle"
    /\ LET r == [IdleReq EXCEPT !.kind = "chat_message", !.authorization = authorization,
                                !.at = now]
           bypass == authorization.present /\ authorization.testtoken
           a == get_account_from_token(authorization, accounts, now)
           account == IF bypass THEN TestAccount ELSE a.account
           s == [r EXCEPT !.account = account, !.checked = ~bypass]
       IN  req' = [req EXCEPT ![p] =
                IF ~bypass /\ a.code # 200 THEN ReqRespond(r, 401)
                ELSE IF ~bypass /\ ~MainSubscriptionActive(account.subscription_status)
                     THEN ReqRespond(s, 403)
                ELSE IF input # "ok" THEN ReqRespond(s, 400)
                ELSE ReqRespond([s EXCEPT !.generated = TRUE], 200)]
    /\ UNCHANGED <<refreshCheck, limiterVars, chat, proxyVars, tokenVars, storeVars, leadVars, billing>>

\* routes/chat.py chat, its dependency get_current_account: 401, or the
\* handler is entered with the account
chat_get_current_account(p, authorization) ==
    /\ req[p].st = "idle"
    /\ LET r == [IdleReq EXCEPT !.kind = "chat", !.authorization = authorization, !.at = now]
           a == get_current_account(authorization, accounts, now)
       IN  req' = [req EXCEPT ![p] =
                IF a.code # 200 THEN ReqRespond(r, 401)
                ELSE [r EXCEPT !.st = "handler", !.account = a.account]]
    /\ UNCHANGED <<refreshCheck, limiterVars, chat, proxyVars, tokenVars, storeVars, leadVars, billing>>

\* routes/chat.py chat, entered with the account its dependency returned
chat_handler(p, ok) ==
    /\ req[p].st = "handler"
    /\ req[p].kind = "chat"
    /\ chat_begin(p, req[p].account.account_id, req[p].account.subscription_status, ok)

\* routes/auth.py refresh_token, the whole handler: always a new token
refresh_token(p, authorization) ==
    /\ req[p].st = "idle"
    /\ LET r == [IdleReq EXCEPT !.kind = "refresh", !.authorization = authorization, !.at = now]
           a == get_current_account(authorization, accounts, now)
           new_token == create_jwt_token(a.account.account_id, a.account.fub_account_id,
                                         Delta(DefaultLifetime), now)
       IN  req' = [req EXCEPT ![p] =
                IF a.code # 200 THEN ReqRespond(r, 401)
                ELSE ReqRespond([r EXCEPT !.account = a.account, !.token = new_token], 200)]
    /\ UNCHANGED <<refreshCheck, limiterVars, chat, proxyVars, tokenVars, storeVars, leadVars, billing>>

RefreshMinutes == 15

\* Offsets of the server's local time from UTC that fromtimestamp() applies
UtcOffsets == {0, 3600 * TicksPerSecond}

\* should_refresh_token at clock reading t: datetime.fromtimestamp(exp) is
\* local time, datetime.utcnow() is UTC
should_refresh_token(token_payload, t, utcoffset) ==
    IF token_payload.exp = 0 THEN TRUE
    ELSE (token_payload.exp * TicksPerSecond + utcoffset) - t < RefreshMinutes * TicksPerMinute

NoRefreshCheck == [st |-> "none"]

should_refresh_token_call(token_payload, utcoffset) ==
    /\ refreshCheck' = [st |-> "done", exp |-> token_payload.exp, at |-> now,
                        utcoffset |-> utcoffset,
                        result |-> should_refresh_token(token_payload, now, utcoffset)]
    /\ UNCHANGED <<req, limiterVars, chat, proxyVars, tokenVars, storeVars, leadVars, billing>>

---------------------------------------------------------------------------
(* Lead context and note creation: ChatService.generate_response and      *)
(* _get_lead_context (chat_service.py), FubService.get_lead_data           *)
(* (fub_service.py), create_note (routes/fub.py), get_cached_lead_data and *)
(* cache_lead_data (utils.py)                                             *)

Persons == {"p1"}

\* What _get_lead_context hands to the prompt: nothing yet, the summary of
\* CRM data fetched with owner's credentials, or the fallback sentence
\* "Unable to retrieve lead information at this time."
NoSummary == [kind |-> "none", owner |-> 0]
Summary(owner) == [kind |-> "lead", owner |-> owner]
Unavailable == [kind |-> "unavailable", owner |-> 0]

\* get_cached_lead_data: the value under the key f"lead_data:{person_id}", which
\* the person id alone determines; a Redis error reads as a miss
get_cached_lead_data(c, person_id, ok) ==
    IF ok THEN c[person_id] ELSE NoSummary

\* cache_lead_data: setex with a time to live of 90 seconds, which the
\* requests served here do not outlast; a Redis error is logged and dropped
cache_lead_data(c, person_id, data, ok) ==
    IF ok THEN [c EXCEPT ![person_id] = data] ELSE c

\* account.access_token, account.refresh_token
StoredPair(row) == [access |-> row.fub_access_token, refresh |-> row.fub_refresh_token]

\* `not account.access_token`: the column is NULL
NoToken(v) == v = NoPair.access

WritePair_accessonly(row, loaded, pair, t) ==
    [row EXCEPT !.fub_access_token = pair.access, !.updated_at = t]

\* account.access_token = ...; account.refresh_token = ...; session.commit():
\* the UPDATE sets the columns whose value differs from the one loaded, and
\* updated_at (onupdate)
WritePair(row, loaded, pair, t) ==
    [row EXCEPT !.fub_access_token = IF pair.access # loaded.access THEN pair.access ELSE @,
                !.fub_refresh_token = IF pair.refresh # loaded.refresh THEN pair.refresh ELSE @,
                !.updated_at = t]

\* The first request of a make_fub_api_request execution
FirstRequest(pair, method) ==
    [IdleFub EXCEPT !.st = "attempt1", !.method = method, !.given = pair,
                    !.requests = 1, !.bearer = <<pair.access>>]

FubDone(c) == c.st \in {"returned", "raised"}

\* Why a finished make_fub_api_request execution raised AuthenticationError
FaultOf(c) ==
    IF c.st # "raised" THEN "none"
    ELSE IF c.rr # NoResponse /\ c.r2 = NoResponse THEN "refresh"
    ELSE LET last == IF c.r2 # NoResponse THEN c.r2 ELSE c.r1
         IN  IF last = RequestError THEN "unreachable"
             ELSE IF last >= 500 THEN "5xx"
             ELSE "rejected"

IdleGen == [st |-> "idle", kind |-> "none", account |-> 0, person |-> "", input |-> "none",
            loaded |-> NoPair, first |-> NoPair, pending |-> NoPair,
            calls |-> 0, refreshes |-> 0, fault |-> "none",
            context |-> NoSummary, answer |-> "none", saved |-> FALSE, code |-> 0]

GenRespond(g, code) == [g EXCEPT !.st = "done", !.code = code]

\* generate_response, entered by chat with its authenticated account:
\* _get_lead_context looks in the cache, and on a miss get_lead_data sends
\* its first CRM request (the person)
generate_response(p, account_id, person_id, cacheok) ==
    /\ lead[p].st = "idle"
    /\ fub[p].st = "idle"
    /\ account_id \in 1..Len(accounts)
    /\ LET row == accounts[account_id]
           g == [IdleGen EXCEPT !.kind = "chat", !.account = account_id,
                                !.person = person_id, !.loaded = StoredPair(row)]
           cached_data == get_cached_lead_data(cache, person_id, cacheok)
       IN  IF cached_data # NoSummary
           THEN /\ lead' = [lead EXCEPT ![p] = [g EXCEPT !.st = "openai", !.context = cached_data]]
                /\ UNCHANGED fub
           ELSE /\ lead' = [lead EXCEPT ![p] = [g EXCEPT !.st = "people", !.calls = 1]]
                /\ fub' = [fub EXCEPT ![p] = FirstRequest(StoredPair(row), "GET")]
    /\ UNCHANGED <<cache, oauth, billing, limiterVars, chat, tokenVars, storeVars, sessionVars>>

\* get_lead_data, lines 42-54: the person request has finished; its tokens
\* go into the activities request.  An AuthenticationError leaves
\* get_lead_data and is caught by _get_lead_context (line 103)
get_lead_data_people(p) ==
    /\ lead[p].st = "people"
    /\ FubDone(fub[p])
    /\ LET g == [lead[p] EXCEPT !.refreshes = @ + fub[p].refreshes]
       IN  IF fub[p].st = "raised"
           THEN /\ lead' = [lead EXCEPT ![p] = [g EXCEPT !.st = "openai", !.context = Unavailable,
                                                       !.fault = FaultOf(fub[p])]]
                /\ fub' = [fub EXCEPT ![p] = IdleFub]
           ELSE /\ lead' = [lead EXCEPT ![p] = [g EXCEPT !.st = "activities", !.calls = 2,
                                                       !.first = fub[p].tokens]]
                /\ fub' = [fub EXCEPT ![p] = FirstRequest(fub[p].tokens, "GET")]
    /\ UNCHANGED <<cache, oauth, billing, limiterVars, chat, tokenVars, storeVars, sessionVars>>

\* get_lead_data, lines 56-73, and _get_lead_context, lines 90-105: the
\* activities request has finished; changed tokens are put on the account
\* object, the summary is built and cached
get_lead_data_activities(p, cacheok) ==
    /\ lead[p].st = "activities"
    /\ FubDone(fub[p])
    /\ LET g == [lead[p] EXCEPT !.refreshes = @ + fub[p].refreshes]
           final == fub[p].tokens
           summary == Summary(g.account)
       IN  IF fub[p].st = "raised"
           THEN /\ lead' = [lead EXCEPT ![p] = [g EXCEPT !.st = "openai", !.context = Unavailable,
                                                       !.fault = FaultOf(fub[p])]]
                /\ UNCHANGED cache
           ELSE /\ lead' = [lead EXCEPT ![p] = [g EXCEPT !.st = "openai", !.context = summary,
                              !.pending = IF final.access # g.loaded.access THEN final ELSE NoPair]]
                /\ cache' = cache_lead_data(cache, g.person, summary, cacheok)
    /\ fub' = [fub EXCEPT ![p] = IdleFub]
    /\ UNCHANGED <<oauth, billing, limiterVars, chat, tokenVars, storeVars, sessionVars>>

\* generate_response, lines 49-63, and chat, lines 147-152: the model is
\* asked, the conversation is saved (session.commit() also writes the token
\* pair put on the account object), and the text is returned with 200.  An
\* exception from the model ends in the apology text; a failed commit is
\* rolled back
generate_response_finish(p, llm, dbok) ==
    /\ lead[p].st = "openai"
    /\ LET g == lead[p]
           a == g.account
           commit == llm = "answer" /\ dbok
       IN  /\ lead' = [lead EXCEPT ![p] =
                  GenRespond([g EXCEPT !.answer = IF llm = "answer" THEN "advice" ELSE "apology",
                                       !.saved = commit], 200)]
           /\ accounts' = IF commit /\ g.pending # NoPair
                          THEN [accounts EXCEPT ![a] = WritePair(@, g.loaded, g.pending, now)]
                          ELSE accounts
    /\ UNCHANGED <<login, cache, billing, limiterVars, chat, proxyVars, tokenVars, sessionVars>>

\* create_note (routes/fub.py), lines 67-94: the input, the credentials,
\* then the CRM request
create_note(p, account_id, input) ==
    /\ lead[p].st = "idle"
    /\ fub[p].st = "idle"
    /\ account_id \in 1..Len(accounts)
    /\ LET row == accounts[account_id]
           g == [IdleGen EXCEPT !.kind = "note", !.account = account_id, !.input = input,
                                !.loaded = StoredPair(row)]
       IN  IF input # "ok"
           THEN /\ lead' = [lead EXCEPT ![p] = GenRespond(g, 400)]
                /\ UNCHANGED fub
           ELSE IF NoToken(row.fub_access_token) \/ NoToken(row.fub_refresh_token)
           THEN /\ lead' = [lead EXCEPT ![p] = GenRespond(g, 401)]
                /\ UNCHANGED fub
           ELSE /\ lead' = [lead EXCEPT ![p] = [g EXCEPT !.st = "note", !.calls = 1]]
                /\ fub' = [fub EXCEPT ![p] = FirstRequest(StoredPair(row), "POST")]
    /\ UNCHANGED <<cache, oauth, billing, limiterVars, chat, tokenVars, storeVars, sessionVars>>

\* create_note, lines 96-125: the CRM request has finished
create_note_response(p, dbok) ==
    /\ lead[p].st = "note"
    /\ FubDone(fub[p])
    /\ LET g == [lead[p] EXCEPT !.refreshes = @ + fub[p].refreshes, !.fault = FaultOf(fub[p])]
           a == g.account
           new == fub[p].tokens
           changed == fub[p].st = "returned" /\ new.access # g.loaded.access
       IN  /\ lead' = [lead EXCEPT ![p] =
                  IF fub[p].st = "raised" THEN GenRespond(g, 401)
                  ELSE IF changed /\ ~dbok THEN GenRespond(g, 500)
                  ELSE GenRespond([g EXCEPT !.saved = changed,
                                            !.pending = IF changed THEN new ELSE NoPair], 200)]
           /\ accounts' = IF changed /\ dbok
                          THEN [accounts EXCEPT ![a] = WritePair(@, g.loaded, new, now)]
                          ELSE accounts
    /\ fub' = [fub EXCEPT ![p] = IdleFub]
    /\ UNCHANGED <<login, cache, oauth, billing, limiterVars, chat, tokenVars, sessionVars>>

---------------------------------------------------------------------------
(* Stripe webhook: stripe_webhook (routes/stripe_webhook.py) and           *)
(* StripeService (services/stripe_service.py)                              *)

SubscriptionStatuses == {"active", "cancelled", "incomplete", "past_due", "trialing", "unpaid"}

EventTypes ==
    {"checkout.session.completed", "customer.subscription.updated",
     "customer.subscription.deleted", "invoice.payment_succeeded",
     "invoice.payment_failed", "customer.created"}

Customers == {"cus_1", "cus_9"}

\* Subscription statuses Stripe reports; "paused" is not in the mapping
StripeStatuses == {"active", "canceled", "past_due", "paused"}

\* A Stripe event: its type, data.object.customer, the fub_account_id of a
\* checkout session's metadata (PyNone: none), a subscription's status
Event(type, customer, fub_account_id, status) ==
    [type |-> type, customer |-> customer, fub_account_id |-> fub_account_id, status |-> status]

Events ==
    {Event("checkout.session.completed", c, e, "none")
        : c \in Customers, e \in FubAccountIds \cup {"7", PyNone}}
    \cup {Event("customer.subscription.updated", c, PyNone, s) : c \in Customers, s \in StripeStatuses}
    \cup {Event(t, c, PyNone, "none")
            : t \in EventTypes \ {"checkout.session.completed", "customer.subscription.updated"},
              c \in Customers}

\* The stripe-signature header: absent, the signature of this payload, or not
StripeSignatures == {"none", "valid", "invalid"}

\* stripe.Webhook.construct_event(payload, signature, secret), "json" or
\* "malformed" being the raw body: the header is verified against the raw
\* body first (SignatureVerificationError, which is not a ValueError), then
\* the body is parsed (ValueError)
construct_event(payload, signature) ==
    IF signature # "valid" THEN "SignatureVerificationError"
    ELSE IF payload # "json" THEN "ValueError"
    ELSE "event"

status_mapping_raw(status) == status

\* status_mapping.get(status, SubscriptionStatus.CANCELLED)
status_mapping(status) ==
    IF status = "active" THEN "active"
    ELSE IF status = "canceled" THEN "cancelled"
    ELSE IF status = "incomplete" THEN "incomplete"
    ELSE IF status = "past_due" THEN "past_due"
    ELSE IF status = "trialing" THEN "trialing"
    ELSE IF status = "unpaid" THEN "unpaid"
    ELSE "cancelled"

\* session.query(Account).filter(Account.stripe_customer_id == customer_id):
\* the rows .first() can return (no ORDER BY)
ByCustomer(rows, customer_id) ==
    {i \in 1..Len(rows) : rows[i].stripe_customer_id = customer_id}

\* The rows an event is applied to: by metadata for a checkout, else by customer
Matches(rows, event) ==
    IF event.type = "checkout.session.completed"
    THEN IF Falsy(event.fub_account_id) THEN {}
         ELSE {i \in 1..Len(rows) : i = get_account_by_fub_id(rows, event.fub_account_id)}
    ELSE IF event.type \in {"customer.subscription.updated", "customer.subscription.deleted",
                            "invoice.payment_succeeded", "invoice.payment_failed"}
    THEN ByCustomer(rows, event.customer)
    ELSE {}

\* _handle_checkout_completed ... _handle_payment_failed applied to the row found
HandleEvent(row, event) ==
    IF event.type = "checkout.session.completed"
    THEN [row EXCEPT !.stripe_customer_id = event.customer, !.subscription_status = "active"]
    ELSE IF event.type = "customer.subscription.updated"
    THEN [row EXCEPT !.subscription_status = status_mapping(event.status)]
    ELSE IF event.type = "customer.subscription.deleted"
    THEN [row EXCEPT !.subscription_status = "cancelled"]
    ELSE IF event.type = "invoice.payment_succeeded"
    THEN IF row.subscription_status # "active"
         THEN [row EXCEPT !.subscription_status = "active"] ELSE row
    ELSE IF event.type = "invoice.payment_failed"
    THEN [row EXCEPT !.subscription_status = "past_due"]
    ELSE row

NoEvent == Event("none", PyNone, PyNone, "none")

\* The last webhook request and its answer.  before: the account table when
\* it arrived; matched: the row the handler found (0: none); deleted:
\* accounts cancelled by customer.subscription.deleted that have seen only
\* invoice events since
NoWebhook == [st |-> "none", signature |-> "none", payload |-> "json", event |-> NoEvent,
              before |-> <<>>, handled |-> FALSE, matched |-> 0, code |-> 0, deleted |-> {}]

Deleted(deleted, event, i) ==
    IF event.type = "customer.subscription.deleted" THEN deleted \cup {i}
    ELSE IF event.type \in {"checkout.session.completed", "customer.subscription.updated"}
    THEN deleted \ {i}
    ELSE deleted

\* Whether the handler reaches session.commit() for the row it found
Commits(row, event) ==
    ~(event.type = "invoice.payment_succeeded" /\ row.subscription_status = "active")

\* POST /stripe/webhook, the whole handler.  i: the row .first() returns
\* (0: none); dbok = FALSE: session.commit() raises
stripe_webhook(signature, payload, event, i, dbok) ==
    /\ i \in Matches(accounts, event) \cup {0}
    /\ i = 0 => Matches(accounts, event) = {}
    /\ LET w == [NoWebhook EXCEPT !.st = "done", !.signature = signature, !.payload = payload,
                                  !.event = event, !.before = accounts,
                                  !.deleted = billing.deleted]
           parsed == construct_event(payload, signature)
       IN  IF signature = "none" THEN
                /\ billing' = [w EXCEPT !.code = 400]
                /\ UNCHANGED accounts
           ELSE IF parsed = "ValueError" THEN
                /\ billing' = [w EXCEPT !.code = 400]
                /\ UNCHANGED accounts
           ELSE IF parsed # "event" THEN
                /\ billing' = [w EXCEPT !.code = 500]
                /\ UNCHANGED accounts
           ELSE IF i = 0 THEN
                /\ billing' = [w EXCEPT !.code = 200, !.handled = TRUE]
                /\ UNCHANGED accounts
           ELSE IF Commits(accounts[i], event) /\ ~dbok THEN
                /\ billing' = [w EXCEPT !.code = 500, !.handled = TRUE, !.matched = i]
                /\ UNCHANGED accounts
           ELSE LET row == HandleEvent(accounts[i], event)
                IN  /\ billing' = [w EXCEPT !.code = 200, !.handled = TRUE, !.matched = i,
                                            !.deleted = Deleted(@, event, i)]
                    /\ accounts' = IF row # accounts[i]
                                   THEN [accounts EXCEPT ![i] = [row EXCEPT !.updated_at = now]]
                                   ELSE accounts
    /\ UNCHANGED <<login, leadVars, limiterVars, chat, proxyVars, tokenVars, sessionVars>>

---------------------------------------------------------------------------
(* Specifications *)

InitIdle ==
    /\ fub = [p \in Procs |-> IdleFub]
    /\ oauth = 0
    /\ issued = {}
    /\ verified = NoVerify
    /\ login = [p \in Procs |-> IdleLogin]
    /\ req = [p \in Procs |-> IdleReq]
    /\ refreshCheck = NoRefreshCheck
    /\ lead = [p \in Procs |-> IdleGen]
    /\ cache = [person \in Persons |-> NoSummary]
    /\ billing = NoWebhook

InitLimiter ==
    /\ now = StartTime
    /\ zsets = [k \in RLKeys |-> {}]
    /\ expireAt = [k \in RLKeys |-> 0]
    /\ rl = [p \in Procs |-> NoCall]
    /\ rlLog = <<>>
    /\ rlLast = NoLast
    /\ chat = [p \in Procs |-> IdleChat]
    /\ accounts = <<>>
    /\ InitIdle

NextLimiter ==
    \/ \E p \in Procs, k \in DirectKeys, w \in DirectWindows, ok \in BOOLEAN :
          DirectCall(p, k, DirectMax(k), w, ok)
    \/ \E p \in Procs, o \in ExecOutcomes : check_rate_limit_execute(p, o)
    \/ \E t \in Times : Tick(t)

SpecLimiter == InitLimiter /\ [][NextLimiter]_vars

\* The n most recent clock readings up to StartTime: the window of a key that
\* was checked once per tick
Recent(n) == {StartTime - i : i \in 0..(n - 1)}

\* Windows left behind by earlier traffic
Preloads ==
    LET Z(a1, ipHost, ipUnknown) ==
            [k \in RLKeys |-> IF k = AccountKey(1) THEN Recent(a1)
                              ELSE IF k = IpKey("10.0.0.1") THEN Recent(ipHost)
                              ELSE IF k = IpKey("unknown") THEN Recent(ipUnknown)
                              ELSE {}]
    IN  {Z(0, 0, 0),
         Z(AccountMaxRequests - 1, 0, 0),
         Z(AccountMaxRequests, IpMaxRequests - 1, 0),
         Z(0, IpMaxRequests, IpMaxRequests)}

ChatStatuses == {"active", "past_due"}
ChatTimes == {StartTime + TicksPerMinute}
ChatExecOutcomes == {"ok", "noreply"}
ChatInputs == {"ok", "empty_question", "empty_person"}
GenOutcomes == {"answer", "raise"}

InitChat ==
    /\ now = StartTime
    /\ zsets \in Preloads
    /\ expireAt = [k \in RLKeys |-> IF zsets[k] = {} THEN 0
                                    ELSE StartTime + Window(RateLimitWindowMinutes)]
    /\ rl = [p \in Procs |-> NoCall]
    /\ rlLog = <<>>
    /\ rlLast = NoLast
    /\ chat = [p \in Procs |-> IdleChat]
    /\ accounts = <<>>
    /\ InitIdle

NextChat ==
    \/ \E p \in Procs, a \in AccountIds, st \in ChatStatuses, ok \in BOOLEAN :
          chat_begin(p, a, st, ok)
    \/ \E p \in Procs, cl \in ClientHosts \cup {NoClient}, ok \in BOOLEAN :
          apply_rate_limiting_account(p, cl, ok)
    \/ \E p \in Procs, inp \in ChatInputs, g \in GenOutcomes : apply_rate_limiting_ip(p, inp, g)
    \/ \E p \in Procs, o \in ChatExecOutcomes : check_rate_limit_execute(p, o)
    \/ \E t \in ChatTimes : Tick(t)

SpecChat == InitChat /\ [][NextChat]_vars

InitProxy == InitLimiter

NextProxy ==
    \/ \E p \in Procs, m \in Methods : make_fub_api_request(p, TokenPair(0), m)
    \/ \E p \in Procs, r \in CrmResponses : attempt1_response(p, r)
    \/ \E p \in Procs, r \in OauthResponses : refresh_response(p, r)
    \/ \E p \in Procs, r \in CrmResponses : attempt2_response(p, r)

SpecProxy == InitProxy /\ [][NextProxy]_vars

InitToken == InitLimiter

NextToken ==
    \/ \E a \in AccountIds, e \in FubAccountIds, d \in Deltas : IssueToken(a, e, d)
    \/ VerifyIssued
    \/ VerifyTampered
    \/ VerifyForged
    \/ VerifyMalformed
    \/ \E t \in TokenTimes : Tick(t)

SpecToken == InitToken /\ [][NextToken]_vars

\* A row as later traffic leaves it: linked to the CRM and to a billing customer
LinkedAccount(account_id, fub_account_id, subscription_status) ==
    [NewAccount(account_id, fub_account_id, StartTime - TicksPerMinute) EXCEPT
        !.subscription_status = subscription_status,
        !.fub_access_token = TokenPair(0).access, !.fub_refresh_token = TokenPair(0).refresh,
        !.stripe_customer_id = "cus_1"]

LoginStores ==
    {<<>>,
     <<LinkedAccount(1, "42", "active")>>,
     <<NewAccount(1, "7", StartTime - TicksPerMinute), LinkedAccount(2, "42", "past_due")>>}

LoginTimes == {StartTime + TicksPerSecond}

InitStore(stores) ==
    /\ now = StartTime
    /\ zsets = [k \in RLKeys |-> {}]
    /\ expireAt = [k \in RLKeys |-> 0]
    /\ rl = [p \in Procs |-> NoCall]
    /\ rlLog = <<>>
    /\ rlLast = NoLast
    /\ chat = [p \in Procs |-> IdleChat]
    /\ accounts \in stores
    /\ InitIdle

InitLogin == InitStore(LoginStores)

NextLogin ==
    \/ \E p \in Procs, v \in LoginVariants, c \in Contexts : \E s \in Signatures(c) :
          iframe_login(p, v, c, s)
    \/ \E p \in Procs : create_or_update_account_select(p)
    \/ \E p \in Procs, dbok \in BOOLEAN : create_or_update_account_write(p, dbok)
    \/ \E t \in LoginTimes : Tick(t)

SpecLogin == InitLogin /\ [][NextLogin]_vars

SessionStores ==
    {<<NewAccount(1, "42", StartTime - TicksPerMinute)>>,
     <<LinkedAccount(1, "42", "active")>>,
     <<LinkedAccount(1, "7", "cancelled"), LinkedAccount(2, "42", "past_due")>>}

\* A second later; exactly RefreshMinutes before a token minted at StartTime
\* expires; past its expiry
SessionTimes ==
    {StartTime + TicksPerSecond,
     StartTime + DefaultLifetime - RefreshMinutes * TicksPerMinute,
     StartTime + DefaultLifetime + TicksPerSecond}

SessionInputs == {"ok", "empty"}

\* Tasks that serve the authenticated endpoints
SessionProcs == {1}

InitSession == InitStore(SessionStores)

NextSession ==
    \/ \E i \in 1..Len(accounts) :
          IssueToken(accounts[i].account_id, accounts[i].fub_account_id, Delta(DefaultLifetime))
    \/ \E p \in SessionProcs, inp \in SessionInputs : \E h \in Authorizations(now) :
          chat_message(p, h, inp)
    \/ \E p \in SessionProcs : \E h \in Authorizations(now) : chat_get_current_account(p, h)
    \/ \E p \in SessionProcs : chat_handler(p, TRUE)
    \/ \E p \in SessionProcs, cl \in ClientHosts : apply_rate_limiting_account(p, cl, TRUE)
    \/ \E p \in SessionProcs : apply_rate_limiting_ip(p, "ok", "answer")
    \/ \E p \in SessionProcs : check_rate_limit_execute(p, "ok")
    \/ \E p \in SessionProcs : \E h \in Authorizations(now) : refresh_token(p, h)
    \/ \E t \in SessionTimes : Tick(t)

SpecSession == InitSession /\ [][NextSession]_vars

RefreshTimes ==
    {StartTime + DefaultLifetime - RefreshMinutes * TicksPerMinute + o : o \in {0 - 1, 0, 1, TicksPerSecond}}
    \cup {StartTime + DefaultLifetime + UtcOffset - RefreshMinutes * TicksPerMinute + o
             : UtcOffset \in UtcOffsets, o \in {0 - 1, 0, 1}}

InitRefresh == InitLimiter

NextRefresh ==
    \/ \E a \in AccountIds, e \in FubAccountIds, d \in Deltas : IssueToken(a, e, d)
    \/ \E r \in issued, o \in UtcOffsets : should_refresh_token_call(r.token.payload, o)
    \/ \E t \in RefreshTimes : Tick(t)

SpecRefresh == InitRefresh /\ [][NextRefresh]_vars

\* Two tenants linked to the CRM, and an account that never was
LeadStores ==
    {<<LinkedAccount(1, "42", "active"), LinkedAccount(2, "7", "active"),
       NewAccount(3, "9", StartTime - TicksPerMinute)>>}

LeadCrmResponses == {200, 401, 500, RequestError}
LeadOauthResponses == {200, 400}
NoteInputs == {"ok", "empty"}
LlmOutcomes == {"answer", "error"}

InitLead == InitStore(LeadStores)

NextLead ==
    \/ \E p \in Procs, a \in 1..Len(accounts), person \in Persons, cacheok \in BOOLEAN :
          generate_response(p, a, person, cacheok)
    \/ \E p \in Procs : get_lead_data_people(p)
    \/ \E p \in Procs, cacheok \in BOOLEAN : get_lead_data_activities(p, cacheok)
    \/ \E p \in Procs, llm \in LlmOutcomes, dbok \in BOOLEAN : generate_response_finish(p, llm, dbok)
    \/ \E p \in Procs, a \in 1..Len(accounts), inp \in NoteInputs : create_note(p, a, inp)
    \/ \E p \in Procs, dbok \in BOOLEAN : create_note_response(p, dbok)
    \/ \E p \in Procs, r \in LeadCrmResponses : attempt1_response(p, r)
    \/ \E p \in Procs, r \in LeadOauthResponses : refresh_response(p, r)
    \/ \E p \in Procs, r \in LeadCrmResponses : attempt2_response(p, r)

SpecLead == InitLead /\ [][NextLead]_vars

BillingStores ==
    {<<LinkedAccount(1, "42", "active"), NewAccount(2, "7", StartTime - TicksPerMinute)>>}

\* The bodies a request can carry: an event, or bytes that do not parse
WebhookBodies == {<<"json", e>> : e \in Events} \cup {<<"malformed", NoEvent>>}

InitBilling == InitStore(BillingStores)

\* The commit can only fail where there is one
NextBilling ==
    \E s \in StripeSignatures, b \in WebhookBodies, i \in 0..Len(accounts) :
        \E dbok \in IF s = "valid" /\ i # 0 THEN BOOLEAN ELSE {TRUE} :
            stripe_webhook(s, b[1], b[2], i, dbok)

SpecBilling == InitBilling /\ [][NextBilling]_vars


---------------------------------------------------------------------------
(* Properties of the rate limiter *)

\* Positions in rlLog of the completed calls for key k
CallsOf(k) == {i \in 1..Len(rlLog) : rlLog[i].key = k}

\* The calls for the same key that completed before call i
Earlier(i) == {j \in CallsOf(rlLog[i].key) : j < i}

\* Call i and every earlier call for its key used the same limit and window
\* and met no backing-store failure
Uniform(i) ==
    \A j \in Earlier(i) \cup {i} :
        /\ ~rlLog[j].err
        /\ rlLog[j].max = rlLog[i].max
        /\ rlLog[j].wm = rlLog[i].wm

\* Call i completed less than one window after every earlier call for its key
\* read the clock
SameWindow(i) ==
    \A j \in Earlier(i) : rlLog[i].s - rlLog[j].t < Window(rlLog[i].wm)

\* At least one window has elapsed between every earlier call for the key and call i
WindowElapsed(i) ==
    \A j \in Earlier(i) : rlLog[i].t - rlLog[j].t >= Window(rlLog[i].wm)

\* C2: for a key with no prior activity and max_requests = N, the first N
\* calls within one window return true, the (N+1)th call within the same
\* window returns false, and a call made once the window has elapsed since the
\* earlier calls returns true again.
C2_FirstNThenDenied ==
    \A i \in 1..Len(rlLog) :
        Uniform(i) =>
            LET rank == Cardinality(Earlier(i)) + 1
                N    == rlLog[i].max
            IN  /\ (SameWindow(i) /\ rank <= N) => rlLog[i].result
                /\ (SameWindow(i) /\ rank = N + 1) => ~rlLog[i].result
                /\ WindowElapsed(i) => rlLog[i].result

\* The pipeline of the last check ran to completion and its reply was read
LastChecked == rlLast.key[1] # "none" /\ ~rlLast.err

\* C3: a check that denies does not record the denied attempt: after a denied
\* call the key's set holds no timestamp that was not there before the call.
C3_DeniedNotRecorded ==
    (LastChecked /\ ~rlLast.result) => rlLast.after \subseteq rlLast.before

\* C5: the rate limiter fails open: whenever the backing store raises at any
\* step of a check, check_rate_limit returns true.
C5_FailOpen ==
    /\ \A i \in 1..Len(rlLog) : rlLog[i].err => rlLog[i].result
    /\ \A p \in Procs : (rl[p].st = "done" /\ rl[p].err) => rl[p].result

\* A check has failed while executing its pipeline and has returned
C5_Witness ==
    \E p \in Procs : rl[p].st = "done" /\ rl[p].err /\ rlLast.err /\ rlLast.key[1] # "none"

\* C6 as stated: the count compared with max_requests is the number of
\* recorded timestamps t of the key with now - window <= t <= now.
C6_ClosedWindow ==
    LastChecked =>
        rlLast.count = Cardinality({t \in rlLast.before :
                            rlLast.now - Window(rlLast.wm) <= t /\ t <= rlLast.now})

\* C6 amended: the count compared with max_requests is the number of recorded
\* timestamps t of the key with t > now - window; a timestamp recorded exactly
\* one window ago is purged and not counted.
C6_HalfOpenWindow ==
    LastChecked =>
        /\ rlLast.count = Cardinality({t \in rlLast.before : t > rlLast.now - Window(rlLast.wm)})
        /\ rlLast.result = (rlLast.count < rlLast.max)
        /\ \A t \in rlLast.after : t > rlLast.now - Window(rlLast.wm)

\* A check found a timestamp recorded exactly one window before its own
C6_Witness ==
    LastChecked /\ (rlLast.now - Window(rlLast.wm)) \in rlLast.before

---------------------------------------------------------------------------
(* Properties of the chat route *)

---------------------------------------------------------------------------
(* Properties of the CRM proxy client *)

Success(status) == 200 <= status /\ status <= 299

\* C1: within one execution of make_fub_api_request at most one token refresh
\* and at most two downstream requests are issued; 401 then 200 after a
\* successful refresh gives exactly one refresh, exactly two requests and the
\* second body with the refreshed pair; 401 twice fails with
\* AuthenticationError without a third attempt.
C1_RetryBound ==
    \A p \in Procs :
        LET c == fub[p]
        IN  /\ c.refreshes <= 1
            /\ c.requests <= 2
            /\ (c.r1 = 401 /\ c.rr = 200 /\ c.r2 = 200) =>
                    /\ c.st = "returned"
                    /\ c.refreshes = 1
                    /\ c.requests = 2
                    /\ c.body = 2
                    /\ c.tokens = c.fresh
                    /\ c.tokens.access # c.given.access
                    /\ c.tokens.refresh # c.given.refresh
                    /\ c.bearer = <<c.given.access, c.fresh.access>>
            /\ (c.r1 = 401 /\ c.r2 = 401) =>
                    /\ c.st = "raised"
                    /\ c.exc = "AuthenticationError"
                    /\ c.refreshes = 1
                    /\ c.requests = 2

\* One execution was retried with success and another failed on a second 401
C1_Witness ==
    \E p, q \in Procs :
        /\ fub[p].r1 = 401 /\ fub[p].r2 = 200 /\ fub[p].st = "returned"
        /\ fub[q].r1 = 401 /\ fub[q].r2 = 401 /\ fub[q].st = "raised"

\* C7: for every 2xx status of the first downstream request the call returns
\* the body with the original token pair, without a refresh and without a
\* second request.
C7_Any2xxReturns ==
    \A p \in Procs :
        LET c == fub[p]
        IN  Success(c.r1) =>
                /\ c.st = "returned"
                /\ c.body = 1
                /\ c.tokens = c.given
                /\ c.refreshes = 0
                /\ c.requests = 1

\* C8: a first response that is neither 2xx nor 401, or a transport failure,
\* fails with AuthenticationError without a refresh and without a second
\* request.
C8_NoRetryOnOtherFailure ==
    \A p \in Procs :
        LET c == fub[p]
        IN  (c.r1 # NoResponse /\ c.r1 # 401 /\ ~Success(c.r1)) =>
                /\ c.st = "raised"
                /\ c.exc = "AuthenticationError"
                /\ c.refreshes = 0
                /\ c.requests = 1
                /\ c.rr = NoResponse
                /\ c.r2 = NoResponse

\* One execution met a 500 and another a transport failure on the first request
C8_Witness ==
    \E p, q \in Procs :
        /\ fub[p].r1 = 500 /\ fub[p].st = "raised"
        /\ fub[q].r1 = RequestError /\ fub[q].st = "raised"

\* C9: when the first response is 401 and the OAuth endpoint rejects the
\* refresh token or is unreachable, the call fails with AuthenticationError
\* and the second request is never issued.
C9_RefreshFailure ==
    \A p \in Procs :
        LET c == fub[p]
        IN  (c.r1 = 401 /\ c.rr # NoResponse /\ c.rr # 200) =>
                /\ c.st = "raised"
                /\ c.exc = "AuthenticationError"
                /\ c.refreshes = 1
                /\ c.requests = 1
                /\ c.r2 = NoResponse

\* One refresh was rejected and another found the OAuth endpoint unreachable
C9_Witness ==
    \E p, q \in Procs :
        /\ fub[p].r1 = 401 /\ fub[p].rr = 400 /\ fub[p].st = "raised"
        /\ fub[q].r1 = 401 /\ fub[q].rr = RequestError /\ fub[q].st = "raised"

---------------------------------------------------------------------------
(* Properties of the session token codec *)

\* The token verified last was minted by issuance r
VerifiedFrom(r) == verified.st = "done" /\ verified.kind = "issued" /\ verified.token = r.token

Accepted(r) ==
    /\ verified.out.code = 200
    /\ verified.out.payload.account_id = r.account_id
    /\ verified.out.payload.fub_account_id = r.fub_account_id

Rejected == verified.out.code = 401

\* The lifetime the caller asked for: expires_delta, 24 hours when omitted
RequestedLifetime(r) == IF r.delta.given THEN r.delta.ticks ELSE DefaultLifetime

BadTokenRejected ==
    (verified.st = "done" /\ verified.kind # "issued") => Rejected

\* C10 as stated: a token issued with lifetime ttl verifies to (a, e) at every
\* time before issue time + ttl and fails with 401 at every time after it; a
\* token with a bad signature or a malformed one is always rejected with 401.
C10_ExactExpiry ==
    /\ \A r \in issued :
        VerifiedFrom(r) =>
            /\ verified.at < r.at + RequestedLifetime(r) => Accepted(r)
            /\ verified.at > r.at + RequestedLifetime(r) => Rejected
    /\ BadTokenRejected

\* C10 amended: with L = expires_delta when given and non-zero, 24 hours
\* otherwise, the token verifies to (a, e) while the clock's whole second is at
\* most the whole second of issue time + L (so at every time before issue
\* time + L) and fails with 401 afterwards (so from one second after issue
\* time + L on); bad signatures and malformed tokens are rejected with 401.
C10_WholeSecondExpiry ==
    /\ \A r \in issued :
        VerifiedFrom(r) =>
            LET expiry == r.at + Lifetime(r.delta)
            IN  /\ timegm(verified.at) <= timegm(expiry) => Accepted(r)
                /\ timegm(verified.at) > timegm(expiry) => Rejected
                /\ verified.at < expiry => Accepted(r)
                /\ verified.at >= expiry + TicksPerSecond => Rejected
    /\ BadTokenRejected

\* A token was accepted after its issue time + lifetime, within the same second
C10_Witness ==
    \E r \in issued :
        /\ VerifiedFrom(r)
        /\ verified.at > r.at + Lifetime(r.delta)
        /\ Accepted(r)

---------------------------------------------------------------------------
(* Properties of iframe login and the account store *)

ValidSignature(l) == l.signature = Hmac(EmbedSecret, l.context)

HasExternalId(fub_account_id) ==
    \E i \in 1..Len(accounts) : accounts[i].fub_account_id = fub_account_id

C13_NonJsonIs400 ==
    \A p \in Procs :
        (login[p].st = "done" /\ login[p].context.form = "text") => login[p].code = 400

\* C14: a login request with a valid signature whose decoded context has no
\* account id is answered 400, and no account exists under a placeholder id.
C14_MissingIdIs400 ==
    /\ \A p \in Procs :
          (login[p].st # "idle" /\ ValidSignature(login[p])
             /\ login[p].context = Context("json", PyNone)) =>
                (login[p].st = "done" /\ login[p].code = 400)
    /\ ~HasExternalId(str(PyNone))

\* C15: the store holds at most one account per external id, and all logins
\* for one external id that got an account got the same internal id.
C15_OneAccountPerExternalId ==
    /\ \A i, j \in 1..Len(accounts) :
          accounts[i].fub_account_id = accounts[j].fub_account_id => i = j
    /\ \A i \in 1..Len(accounts) : accounts[i].account_id = i
    /\ \A p, q \in Procs :
          (login[p].st = "done" /\ login[p].code = 200 /\ login[q].st = "done"
             /\ login[q].code = 200 /\ login[p].fub_account_id = login[q].fub_account_id) =>
                login[p].account_id = login[q].account_id

\* Two upserts for one never-seen id both passed the existence check; one
\* inserted, the other's insert was refused.
C15_Witness ==
    \E p, q \in Procs :
        /\ login[p].st = "done" /\ login[p].code = 200 /\ login[p].created
        /\ login[q].st = "done" /\ login[q].error = "IntegrityError"
        /\ login[q].existing = 0
        /\ login[q].fub_account_id = login[p].fub_account_id

\* C16: the write of an upsert without extra fields appends a trialing
\* account for the external id when the existence check found none, and
\* otherwise changes nothing but the updated timestamp of the row found.
C16_UpsertEffect ==
    [][\A p \in Procs :
         (login[p].st = "write" /\ login'[p].st = "done") =>
            LET e == login[p].existing
                n == Len(accounts)
            IN  IF e # 0
                THEN /\ Len(accounts') = n
                     /\ \A i \in 1..n :
                           accounts'[i] = IF i = e
                                          THEN [accounts[i] EXCEPT !.updated_at = accounts'[i].updated_at]
                                          ELSE accounts[i]
                ELSE IF login'[p].code = 200
                THEN /\ accounts' = Append(accounts, accounts'[n + 1])
                     /\ accounts'[n + 1].subscription_status = "trialing"
                     /\ accounts'[n + 1].fub_account_id = login[p].fub_account_id
                     /\ accounts'[n + 1].account_id = login'[p].account_id
                     /\ ~HasExternalId(login[p].fub_account_id)
                ELSE accounts' = accounts]_vars

C16_Witness ==
    \E p \in Procs :
        /\ login[p].st = "done" /\ login[p].code = 200 /\ login[p].existing = 2
        /\ accounts[2].updated_at = now
        /\ accounts[2].updated_at > accounts[2].created_at
        /\ accounts[2] = [LinkedAccount(2, "42", "past_due") EXCEPT !.updated_at = now]

---------------------------------------------------------------------------
(* Properties of the authenticated endpoints *)

\* The request's header is "Bearer <token>", the token passes
\* verify_jwt_token when the request is served, and its account exists
Authentic(r) ==
    /\ r.authorization.present
    /\ r.authorization.bearer
    /\ LET v == verify_jwt_token(r.authorization.token, r.at)
       IN  /\ v.code = 200
           /\ \E i \in 1..Len(accounts) : accounts[i].account_id = v.payload.account_id

\* C17: a chat request that reached the subscription check, rate limiting or
\* generation presented a verified bearer token of an existing account; any
\* other chat request is answered 401 and generates nothing.
C17_ChatRequiresAuthentication ==
    \A p \in Procs :
        (req[p].kind \in {"chat", "chat_message"} /\ ~Authentic(req[p])) =>
            /\ req[p].st = "done"
            /\ req[p].code = 401
            /\ ~req[p].generated
            /\ chat[p].st = "idle"

\* C18: check_subscription_active rejects with 403 exactly the accounts whose
\* status is neither active nor trialing.
C18_TrialingAdmitted ==
    \A p \in Procs :
        (req[p].kind = "chat" /\ req[p].st = "handler" /\ chat[p].st # "idle") =>
            ((chat[p].st = "done" /\ chat[p].code = 403)
                <=> req[p].account.subscription_status \notin {"active", "trialing"})

\* C19: an authenticated GET /auth/refresh returns a newly issued token when
\* the presented token has less than 15 minutes left, and the presented
\* token when it has not.
C19_RefreshOnlyNearExpiry ==
    \A p \in Procs :
        (req[p].kind = "refresh" /\ req[p].st = "done" /\ req[p].code = 200) =>
            LET presented == req[p].authorization.token
                remaining == presented.payload.exp * TicksPerSecond - req[p].at
            IN  IF remaining < RefreshMinutes * TicksPerMinute
                THEN req[p].token = create_jwt_token(req[p].account.account_id,
                                       req[p].account.fub_account_id, Delta(DefaultLifetime), req[p].at)
                ELSE req[p].token = presented

\* C20: should_refresh_token is true exactly when the expiry minus the
\* current time, on one clock, is less than 15 minutes.
C20_RefreshThreshold ==
    refreshCheck.st = "done" =>
        (refreshCheck.result <=>
            refreshCheck.exp * TicksPerSecond - refreshCheck.at < RefreshMinutes * TicksPerMinute)

---------------------------------------------------------------------------
(* Lead context and note creation: claims C21-C24, C26, C28 (SpecLead)     *)

\* The request task p served has been answered
Answered(p, kind) == lead[p].st = "done" /\ lead[p].kind = kind

\* C21: when the CRM proxy fails with AuthenticationError during a chat
\* request (the CRM rejects the retried request, or the refresh fails), the
\* request is not answered 200 with advice text.
C21_AuthErrorNotAnswered ==
    \A p \in Procs :
        (Answered(p, "chat") /\ lead[p].fault \in {"rejected", "refresh"})
            => ~(lead[p].code = 200 /\ lead[p].answer = "advice")

\* C22: POST /fub/note answers 400 for empty content or person id and 401 for
\* an account without CRM credentials, both without a CRM call; it answers
\* 500 when the CRM is unreachable or returns a 5xx status.
C22_NoteStatusMapping ==
    \A p \in Procs :
        Answered(p, "note") =>
            /\ lead[p].input = "empty" => (lead[p].code = 400 /\ lead[p].calls = 0)
            /\ (lead[p].input = "ok" /\ lead[p].loaded = NoPair)
                  => (lead[p].code = 401 /\ lead[p].calls = 0)
            /\ lead[p].fault \in {"unreachable", "5xx"} => lead[p].code = 500

C24_OneRefreshPerRequest ==
    \A p \in Procs : lead[p].refreshes + fub[p].refreshes <= 1

\* C26: when the first CRM call of a chat request refreshed the tokens
\* successfully, the account no longer holds the exchanged refresh token at
\* the end of the request, even if the second CRM call failed.
C26_RefreshedPairPersisted ==
    \A p \in Procs :
        (/\ Answered(p, "chat")
         /\ lead[p].first # NoPair
         /\ lead[p].first.refresh # lead[p].loaded.refresh
         /\ lead[p].saved)
            => accounts[lead[p].account].fub_refresh_token # lead[p].loaded.refresh

\* C28: the lead summary used to answer a chat request of an account is
\* derived from CRM data fetched with that account's own credentials.
C28_TenantIsolation ==
    \A p \in Procs :
        (lead[p].kind = "chat" /\ lead[p].context.kind = "lead")
            => lead[p].context.owner = lead[p].account

---------------------------------------------------------------------------
(* Rate limiter: claim C27 (SpecLimiter)                                   *)

\* The calls for call i's key that returned true with a timestamp in the
\* window that ends at call i's timestamp
AdmittedInWindow(i) ==
    {j \in CallsOf(rlLog[i].key) :
        /\ rlLog[j].result
        /\ rlLog[j].t <= rlLog[i].t
        /\ rlLog[i].t - rlLog[j].t < Window(rlLog[i].wm)}

\* Every call for call i's key used the same limit and window, met no
\* backing-store failure and reached the store at the clock value it had read
UniformKey(i) ==
    \A j \in CallsOf(rlLog[i].key) :
        /\ ~rlLog[j].err
        /\ rlLog[j].s = rlLog[j].t
        /\ rlLog[j].max = rlLog[i].max
        /\ rlLog[j].wm = rlLog[i].wm

\* C27: for any key and max_requests = N, with the backing store never
\* failing, at most N calls return true with a timestamp inside any trailing
\* interval of one window length.
C27_AdmissionBound ==
    \A i \in 1..Len(rlLog) :
        (UniformKey(i) /\ rlLog[i].result)
            => Cardinality(AdmittedInWindow(i)) <= rlLog[i].max

---------------------------------------------------------------------------
(* Stripe webhook: claims C25, C29, C30 (SpecBilling)                      *)

\* C25: a webhook request without stripe-signature header, or whose signature
\* does not verify against the raw body, is answered 400, runs no event
\* handler and leaves every account unchanged.
C25_BadSignatureIs400 ==
    (billing.st = "done" /\ billing.signature # "valid")
        => /\ billing.code = 400
           /\ ~billing.handled
           /\ accounts = billing.before

\* The account is the one the event is about
MatchedBy(row, e) ==
    IF e.type = "checkout.session.completed"
    THEN e.fub_account_id # PyNone /\ row.fub_account_id = e.fub_account_id
    ELSE /\ e.type \in {"customer.subscription.updated", "customer.subscription.deleted",
                        "invoice.payment_succeeded", "invoice.payment_failed"}
         /\ row.stripe_customer_id = e.customer

\* The status the event gives the account
StatusAfter(e) ==
    IF e.type \in {"checkout.session.completed", "invoice.payment_succeeded"} THEN "active"
    ELSE IF e.type = "customer.subscription.deleted" THEN "cancelled"
    ELSE IF e.type = "invoice.payment_failed" THEN "past_due"
    ELSE IF e.status = "canceled" THEN "cancelled"
    ELSE IF e.status \in {"active", "incomplete", "past_due", "trialing", "unpaid"} THEN e.status
    ELSE "cancelled"

\* C29: a verified event answered 200 gives one account it matches the status
\* of its type (and, for a checkout, the customer id) and changes nothing
\* else; an event of another type or matching no account changes no account
\* and is answered 200; every status is one of the six enumerated values.
C29_BillingEffects ==
    /\ \A i \in 1..Len(accounts) : accounts[i].subscription_status \in SubscriptionStatuses
    /\ (billing.st = "done" /\ billing.signature = "valid" /\ billing.payload = "json") =>
          LET e == billing.event
              before == billing.before
              M == {i \in 1..Len(before) : MatchedBy(before[i], e)}
          IN  /\ Len(accounts) = Len(before)
              /\ M = {} => (billing.code = 200 /\ accounts = before)
              /\ (M # {} /\ billing.code = 200) =>
                    \E i \in M :
                        /\ accounts[i].subscription_status = StatusAfter(e)
                        /\ accounts[i].stripe_customer_id =
                              IF e.type = "checkout.session.completed" THEN e.customer
                              ELSE before[i].stripe_customer_id
                        /\ accounts[i].fub_account_id = before[i].fub_account_id
                        /\ accounts[i].fub_access_token = before[i].fub_access_token
                        /\ accounts[i].fub_refresh_token = before[i].fub_refresh_token
                        /\ \A j \in 1..Len(before) : j # i => accounts[j] = before[j]

\* A subscription update with a status outside the mapping has cancelled an
\* account that was not cancelled
C29_Witness ==
    /\ billing.st = "done" /\ billing.code = 200 /\ billing.matched # 0
    /\ billing.event.type = "customer.subscription.updated"
    /\ billing.event.status = "paused"
    /\ billing.before[billing.matched].subscription_status # "cancelled"
    /\ accounts[billing.matched].subscription_status = "cancelled"

\* C30: an account cancelled by customer.subscription.deleted is not active
\* for as long as only invoice.payment_succeeded and invoice.payment_failed
\* events follow.
C30_CancellationSticky ==
    \A i \in billing.deleted : accounts[i].subscription_status # "active"

====
